---- MODULE Spec2Model ----
(***************************************************************************)
(* Model of the OllamaSettings panel (src/src/components/OllamaSettings.tsx) *)
(* as a state machine: the panel's hook state, the props its owner passes,  *)
(* the asynchronous model-list load started at mount, the animation-frame   *)
(* queue of deferred owner pushes, and the owner's onSettingsSave callback. *)
(*                                                                         *)
(* One action is one task of the browser's event loop together with the    *)
(* re-render and the effects React runs because of it: the effects of a     *)
(* render are flushed before React handles any other update of the panel.  *)
(* temperature and topP are counted in slider steps of 0.1.                *)
(***************************************************************************)
EXTENDS Integers, Sequences, FiniteSets, TLC

\* ------------------------------------------------------------------ bounds
\* User and owner events (field edits, owner re-renders, Apply clicks) per mount.
MaxEvents == 3

\* ------------------------------------------------------- program constants
TemperatureMax == 20
TopPMax == 10
DefaultTemperature == 7
DefaultTopP == 9
DefaultSeed == 42
DefaultNumCtx == 2048

\* ------------------------------------------------------------ data domains
Fields == {"model", "temperature", "topP", "useFixedSeed", "seed", "numCtx"}

DefaultSettings ==
    [model |-> "", temperature |-> DefaultTemperature, topP |-> DefaultTopP,
     useFixedSeed |-> FALSE, seed |-> DefaultSeed, numCtx |-> DefaultNumCtx]

\* Records an owner may supply as initialSettings (besides echoing a push).
ExternalRecords ==
    { [model |-> "", temperature |-> 5, topP |-> 10,
       useFixedSeed |-> TRUE, seed |-> 7, numCtx |-> 4096],
      [model |-> "llama3", temperature |-> 12, topP |-> 5,
       useFixedSeed |-> FALSE, seed |-> 99, numCtx |-> 8192] }

\* An optional value (undefined | x) is the empty or the one-element sequence.
None == << >>
Some(x) == << x >>

\* Values the input controls can hand to handleSettingChange.
TemperatureMin == 0
TopPMin == 0
TemperatureInputs == {TemperatureMin, TemperatureMax}
TopPInputs == {TopPMin, TopPMax}
SeedInputs == {0}
NumCtxInputs == {512}

\* Bodies the /api/tags route may answer with (response.json()).
ListBodies ==
    { [hasModels |-> FALSE, models |-> << >>],
      [hasModels |-> TRUE,  models |-> << >>],
      [hasModels |-> TRUE,  models |-> << [name |-> "a"], [name |-> "b"] >>],
      [hasModels |-> TRUE,  models |-> << [name |-> "b"] >>] }

\* getOllamaStartCommand() of ../config/api: a platform-specific command.
StartCommands == {"ollama serve", "OLLAMA_ORIGINS=* ollama serve"}

\* ------------------------------------------------------------ pure helpers
\* JavaScript truthiness of a string-or-undefined value.
Undefined == "undefined"
Falsy(x) == x \in {"", Undefined}

\* initialSettings?.model
InitModel(init) == IF init = None THEN Undefined ELSE init[1].model

\* useState(initialSettings || {...defaults})
InitialState(init) == IF init # None THEN init[1] ELSE DefaultSettings

\* data.models?.map(m => m.name) || []
ModelNames(data) ==
    IF data.hasModels
    THEN [i \in DOMAIN data.models |-> data.models[i].name]
    ELSE << >>

\* Whether reading the names off the body throws: with ?. it never does.
ListBodyThrowsWithoutKey(data) == ~data.hasModels

ListBodyThrows(data) == FALSE

\* The functional updater handed to setSettings once the list is fetched.
BootstrapUpdaterNoGuard(currentSettings, models) ==
    IF Len(models) > 0
    THEN [currentSettings EXCEPT !.model = models[1]]
    ELSE currentSettings

BootstrapUpdaterLastEntry(currentSettings, models) ==
    IF Len(models) > 0 /\ Falsy(currentSettings.model)
    THEN [currentSettings EXCEPT !.model = models[Len(models)]]
    ELSE currentSettings

BootstrapUpdater(currentSettings, models) ==
    IF Len(models) > 0 /\ Falsy(currentSettings.model)
    THEN [currentSettings EXCEPT !.model = models[1]]
    ELSE currentSettings

\* if (!connected) throw ...
ProbeNeverThrows(connected) == FALSE

ProbeThrows(connected) == ~connected

\* setError(`Cannot connect to Ollama. ${getOllamaStartCommand()}`): the
\* message as its parts, in order.  null is the empty sequence.
NoError == << >>
ErrorMessage(startCommand) == << "Cannot connect to Ollama. ", startCommand >>

\* { ...settings, [field]: value }
ApplyFieldSeedReset(s, field, value) ==
    IF field = "useFixedSeed"
    THEN [s EXCEPT !.useFixedSeed = value, !.seed = DefaultSeed]
    ELSE [s EXCEPT ![field] = value]

ApplyFieldFromDefaults(s, field, value) == [DefaultSettings EXCEPT ![field] = value]

ApplyField(s, field, value) == [s EXCEPT ![field] = value]

\* if (autoApply) requestAnimationFrame(...)
EditAlwaysSchedules(auto) == TRUE

EditSchedulesPush(auto) == auto

\* Dependency comparison of the auto-apply effect:
\* [autoApply, settings.model, onSettingsSave, initialSettings?.model]
AutoApplyDepsChanged(autoChanged, prevModel, curModel, cbChanged, prevInitModel, curInitModel) ==
    \/ autoChanged
    \/ prevModel # curModel
    \/ cbChanged
    \/ prevInitModel # curInitModel

\* if (autoApply && settings.model && !initialSettings?.model)
AutoApplyCondition(auto, s, init) ==
    auto /\ ~Falsy(s.model) /\ Falsy(InitModel(init))

\* Dependency comparison of the initialSettings effect: [initialSettings]
InitDepsAlwaysChanged(identityChanged) == TRUE

InitDepsChanged(identityChanged) == identityChanged

\* Dependency comparison of the mount effect: [fetchModels], where fetchModels
\* is useCallback(..., []) and so the same function on every render.
FetchDepsFollowSettings(settingsChanged, propsChanged) == settingsChanged

FetchDepsChanged(settingsChanged, propsChanged) == FALSE

\* What the model select shows: the spinner, the error or the list.
Status(isLoading, err) ==
    IF isLoading THEN "Loading" ELSE IF err # << >> THEN "Error" ELSE "Ready"

\* if (initialSettings) setSettings(initialSettings)
InitialSettingsEffect(s, init) == IF init # None THEN init[1] ELSE s


\* ------------------------------------------------------------------- state
VARIABLES
    mounted,            \* the panel is in the tree
    autoApply,          \* prop autoApply (fixed for the life of the mount)
    initialSettings,    \* prop initialSettings: None or Some(record)
    settings,           \* useState: the working record
    loading,            \* useState: loading flag
    error,              \* useState: NoError or the message parts
    availableModels,    \* useState: fetched model names
    fetchPc,            \* fetchModels: "probe", "list" or "done"
    listRequests,       \* number of fetchWithCORS('/api/tags') calls issued
    loadsStarted,       \* number of fetchModels() calls made by the mount effect
    loadOutcome,        \* "pending", or how fetchModels ended: "ready" or "error"
    rafQueue,           \* records captured by pending requestAnimationFrame callbacks
    lastPush,           \* None or Some(record of the last onSettingsSave call)
    editPushes,         \* onSettingsSave calls made by or because of field edits
    staleSetterCalls,   \* state setters invoked after the panel was unmounted
    nEdits,             \* handleSettingChange calls so far
    nOwnerRenders,      \* owner re-renders so far
    nCommits,           \* Apply Settings clicks so far
    lastStep,           \* what the last step did (history)
    echo                \* the echoing owner's bookkeeping (NoEcho for any other owner)

vars == << mounted, autoApply, initialSettings, settings, loading, error,
           availableModels, fetchPc, listRequests, loadsStarted, loadOutcome,
           rafQueue, lastPush, editPushes, staleSetterCalls, nEdits, nOwnerRenders, nCommits, lastStep,
           echo >>

Range(s) == { s[i] : i \in DOMAIN s }

\* A step's history record: the operation, the working record before it, the
\* inputs it was given and the number of onSettingsSave calls it made.
Step(op, before, field, value, models, initChanged, cbChanged, pushes) ==
    [op |-> op, before |-> before, field |-> field, value |-> value,
     models |-> models, initChanged |-> initChanged, cbChanged |-> cbChanged,
     pushes |-> pushes]

\* An owner that keeps the record it is pushed in its own state and passes
\* that state back as initialSettings re-renders the panel when, and only
\* when, the pushed object is not the object it already holds.  Which object
\* is which is followed by numbering the record objects as they are created:
\*   on        the owner is such an owner
\*   lastEdit  None or Some(the record the last edit produced)
\*   sid       the object held as the settings state
\*   qids      the objects captured by the pending frame callbacks
\*   oid       the object the owner holds (0: none yet)
\*   iid       the object the panel was last given as initialSettings
\*   next      the number of the next object created
NoEcho == [on |-> FALSE, lastEdit |-> None, sid |-> 0, qids |-> << >>,
           oid |-> 0, iid |-> 0, next |-> 0]

\* Events so far against the bound.
Events == nEdits + nOwnerRenders + nCommits

\* ------------------------------------------------- the render after a step
\* The working record once the effects of the render have run: the
\* initialSettings effect may replace it, which renders the panel once more.
AfterEffects(s1, init1, initChanged) ==
    IF InitDepsChanged(initChanged) THEN InitialSettingsEffect(s1, init1) ELSE s1

\* The records the auto-apply effect hands to onSettingsSave: in the render of
\* s1 (against the previous render's dependencies) and in the render that the
\* initialSettings effect's setSettings causes.
EffectPushes(auto, prevS, s1, init0, init1, initChanged, cbChanged) ==
    LET s2 == AfterEffects(s1, init1, initChanged)
        first == /\ AutoApplyDepsChanged(FALSE, prevS.model, s1.model, cbChanged,
                                         InitModel(init0), InitModel(init1))
                 /\ AutoApplyCondition(auto, s1, init1)
        second == /\ s2 # s1
                  /\ AutoApplyDepsChanged(FALSE, s1.model, s2.model, FALSE,
                                          InitModel(init1), InitModel(init1))
                  /\ AutoApplyCondition(auto, s2, init1)
    IN  (IF first THEN << s1 >> ELSE << >>) \o (IF second THEN << s2 >> ELSE << >>)

\* Commit a render of the mounted panel: run the effects, record the pushes
\* and the loads the mount effect starts.
Render(s1, init1, initChanged, cbChanged) ==
    LET P == EffectPushes(autoApply, settings, s1, initialSettings, init1,
                          initChanged, cbChanged)
    IN  /\ settings' = AfterEffects(s1, init1, initChanged)
        /\ lastPush' = IF P = << >> THEN lastPush ELSE Some(P[Len(P)])
        /\ loadsStarted' =
              IF FetchDepsChanged(AfterEffects(s1, init1, initChanged) # settings,
                                  initChanged \/ cbChanged)
              THEN loadsStarted + 1
              ELSE loadsStarted

\* The bookkeeping after a render of the record s1 held in object sid1, with
\* initialSettings the object iid1: a push hands the owner the object pushed,
\* and setSettings(initialSettings) makes that object the state.
EchoAfterRender(e, sid1, iid1, s1, init1, initChanged, cbChanged) ==
    LET P == EffectPushes(autoApply, settings, s1, initialSettings, init1,
                          initChanged, cbChanged)
        sid2 == IF InitDepsChanged(initChanged) /\ init1 # None THEN iid1 ELSE sid1
    IN  [e EXCEPT !.sid = sid2,
                  !.iid = iid1,
                  !.oid = IF P = << >> THEN @
                          ELSE IF P[Len(P)] = s1 THEN sid1 ELSE sid2]

RenderPushes(s1, init1, initChanged, cbChanged) ==
    Len(EffectPushes(autoApply, settings, s1, initialSettings, init1,
                     initChanged, cbChanged))

\* -------------------------------------------------------------------- Init
\* The state after the first render and the mount effects: the load has been
\* started (fetchModels awaits the probe), the auto-apply effect found nothing
\* to push and setSettings(initialSettings) kept the state it was created from.
MountState ==
    /\ mounted = TRUE
    /\ initialSettings \in {None} \cup { Some(r) : r \in ExternalRecords }
    /\ settings = InitialState(initialSettings)
    /\ loading = TRUE
    /\ error = NoError
    /\ availableModels = << >>
    /\ fetchPc = "probe"
    /\ listRequests = 0
    /\ loadsStarted = 1
    /\ loadOutcome = "pending"
    /\ rafQueue = << >>
    /\ lastPush = None
    /\ editPushes = 0
    /\ staleSetterCalls = 0
    /\ nEdits = 0
    /\ nOwnerRenders = 0
    /\ nCommits = 0
    /\ lastStep = Step("mount", InitialState(initialSettings), "", 0, << >>, FALSE, FALSE,
                       Len(EffectPushes(autoApply, InitialState(initialSettings),
                                        InitialState(initialSettings), initialSettings,
                                        initialSettings, TRUE, TRUE)))

\* Any owner, in either mode.
Init ==
    /\ autoApply \in BOOLEAN
    /\ MountState
    /\ echo = NoEcho

\* An echoing owner in auto-apply mode: it holds the record it passes as
\* initialSettings (object 1, which is also the state created from it), or
\* holds none yet and passes nothing (object 1 is the default record).
EchoInit ==
    /\ autoApply = TRUE
    /\ MountState
    /\ echo = [on |-> TRUE, lastEdit |-> None, sid |-> 1, qids |-> << >>,
               oid |-> IF initialSettings = None THEN 0 ELSE 1,
               iid |-> IF initialSettings = None THEN 0 ELSE 1,
               next |-> 2]

\* ----------------------------------------------------------------- actions
\* catch (err) { setError(...) } finally { setLoading(false) }
CatchAndFinally(startCommand) ==
    /\ fetchPc' = "done"
    /\ loadOutcome' = "error"
    /\ IF mounted
       THEN /\ error' = ErrorMessage(startCommand)
            /\ loading' = FALSE
            /\ Render(settings, initialSettings, FALSE, FALSE)
            /\ echo' = IF echo.on
                       THEN EchoAfterRender(echo, echo.sid, echo.iid, settings,
                                            initialSettings, FALSE, FALSE)
                       ELSE echo
            /\ UNCHANGED staleSetterCalls
       ELSE /\ staleSetterCalls' = staleSetterCalls + 2
            /\ UNCHANGED << error, loading, settings, lastPush, loadsStarted, echo >>
    /\ UNCHANGED << availableModels >>

\* await checkOllamaConnection() resolves.
ProbeResolves(connected, startCommand) ==
    /\ fetchPc = "probe"
    /\ IF ProbeThrows(connected)
       THEN /\ CatchAndFinally(startCommand)
            /\ UNCHANGED listRequests
            /\ lastStep' = Step("probe", settings, "", connected, << >>, FALSE, FALSE,
                                IF mounted THEN RenderPushes(settings, initialSettings, FALSE, FALSE) ELSE 0)
       ELSE /\ fetchPc' = "list"
            /\ listRequests' = listRequests + 1
            /\ lastStep' = Step("probe", settings, "", connected, << >>, FALSE, FALSE, 0)
            /\ UNCHANGED << error, loading, settings, lastPush, loadsStarted,
                            loadOutcome, staleSetterCalls, availableModels, echo >>
    /\ UNCHANGED << mounted, autoApply, initialSettings, rafQueue, editPushes,
                    nEdits, nOwnerRenders, nCommits >>

\* await fetchWithCORS('/api/tags') or response.json() rejects.
ListFails(startCommand) ==
    /\ fetchPc = "list"
    /\ CatchAndFinally(startCommand)
    /\ lastStep' = Step("listFailed", settings, "", 0, << >>, FALSE, FALSE,
                        IF mounted THEN RenderPushes(settings, initialSettings, FALSE, FALSE) ELSE 0)
    /\ UNCHANGED << mounted, autoApply, initialSettings, listRequests, rafQueue,
                    editPushes, nEdits, nOwnerRenders, nCommits >>

\* The list arrives: setAvailableModels, setError(null), setSettings(updater),
\* setLoading(false), then the render and its effects.  A body whose names
\* cannot be read would end in the catch block instead.
ListResolves(data) ==
    /\ fetchPc = "list"
    /\ LET models == ModelNames(data)
           s1 == BootstrapUpdater(settings, models)
       IN  IF ListBodyThrows(data)
           THEN /\ \E c \in StartCommands : CatchAndFinally(c)
                /\ lastStep' = Step("list", settings, "", data.hasModels, << >>,
                                    FALSE, FALSE, 0)
           ELSE /\ fetchPc' = "done"
                /\ loadOutcome' = "ready"
                /\ IF mounted
                   THEN /\ availableModels' = models
                        /\ error' = NoError
                        /\ loading' = FALSE
                        /\ Render(s1, initialSettings, FALSE, FALSE)
                        /\ echo' = IF echo.on
                                   THEN EchoAfterRender(
                                          [echo EXCEPT !.next = IF s1 # settings THEN @ + 1 ELSE @],
                                          IF s1 # settings THEN echo.next ELSE echo.sid,
                                          echo.iid, s1, initialSettings, FALSE, FALSE)
                                   ELSE echo
                        /\ lastStep' = Step("list", settings, "", data.hasModels, models,
                                            FALSE, FALSE,
                                            RenderPushes(s1, initialSettings, FALSE, FALSE))
                        /\ UNCHANGED staleSetterCalls
                   ELSE /\ staleSetterCalls' = staleSetterCalls + 4
                        /\ lastStep' = Step("list", settings, "", data.hasModels, models,
                                            FALSE, FALSE, 0)
                        /\ UNCHANGED << availableModels, error, loading, settings,
                                        lastPush, loadsStarted, echo >>
    /\ UNCHANGED << mounted, autoApply, initialSettings, listRequests, rafQueue,
                    editPushes, nEdits, nOwnerRenders, nCommits >>

\* The values a control can pass for a field in the current render.
EditValues(field) ==
    CASE field = "model" ->
            IF loading \/ error # NoError THEN {} ELSE Range(availableModels)
      [] field = "temperature" -> TemperatureInputs
      [] field = "topP" -> TopPInputs
      [] field = "useFixedSeed" -> BOOLEAN
      [] field = "seed" -> IF settings.useFixedSeed THEN SeedInputs ELSE {}
      [] field = "numCtx" -> NumCtxInputs

\* handleSettingChange(field, value), then the render and its effects.
HandleSettingChange(field, value) ==
    /\ mounted
    /\ Events < MaxEvents
    /\ value \in EditValues(field)
    /\ LET newSettings == ApplyField(settings, field, value)
           n == RenderPushes(newSettings, initialSettings, FALSE, FALSE)
       IN  /\ Render(newSettings, initialSettings, FALSE, FALSE)
           /\ rafQueue' = IF EditSchedulesPush(autoApply)
                          THEN Append(rafQueue, newSettings)
                          ELSE rafQueue
           /\ editPushes' = editPushes + n
           /\ echo' = IF echo.on
                      THEN EchoAfterRender(
                             [echo EXCEPT !.lastEdit = Some(newSettings),
                                          !.qids = IF EditSchedulesPush(autoApply)
                                                   THEN Append(@, echo.next) ELSE @,
                                          !.next = @ + 1],
                             echo.next, echo.iid, newSettings, initialSettings,
                             FALSE, FALSE)
                      ELSE echo
           /\ lastStep' = Step("edit", settings, field, value, << >>, FALSE, FALSE, n)
    /\ nEdits' = nEdits + 1
    /\ UNCHANGED << mounted, autoApply, initialSettings, loading, error,
                    availableModels, fetchPc, listRequests, loadOutcome,
                    staleSetterCalls, nOwnerRenders, nCommits >>

\* The next animation frame runs the oldest pending callback:
\* onSettingsSave(newSettings).  Nothing cancels it when the panel unmounts.
RunFrame ==
    /\ rafQueue # << >>
    /\ rafQueue' = Tail(rafQueue)
    /\ editPushes' = editPushes + 1
    /\ lastPush' = Some(Head(rafQueue))
    /\ echo' = IF echo.on
               THEN [echo EXCEPT !.oid = Head(echo.qids), !.qids = Tail(@)]
               ELSE echo
    /\ lastStep' = Step("frame", settings, "", 0, << >>, FALSE, FALSE, 1)
    /\ UNCHANGED << mounted, autoApply, initialSettings, settings, loading, error,
                    availableModels, fetchPc, listRequests, loadsStarted,
                    loadOutcome, staleSetterCalls, nEdits, nOwnerRenders, nCommits >>

\* The Apply Settings button (rendered only when !autoApply):
\* onClick={() => onSettingsSave(settings)}.  The history keeps the edit that
\* came right before the click, if one did.
Commit ==
    /\ mounted
    /\ ~autoApply
    /\ Events < MaxEvents
    /\ nCommits' = nCommits + 1
    /\ lastPush' = Some(settings)
    /\ lastStep' = IF lastStep.op = "edit"
                   THEN Step("commit", lastStep.before, lastStep.field, lastStep.value,
                             << >>, FALSE, FALSE, 1)
                   ELSE Step("commit", settings, "", 0, << >>, FALSE, FALSE, 1)
    /\ UNCHANGED << mounted, autoApply, initialSettings, settings, loading, error,
                    availableModels, fetchPc, listRequests, loadsStarted,
                    loadOutcome, rafQueue, editPushes, staleSetterCalls, nEdits,
                    nOwnerRenders, echo >>

\* The values the owner may pass as initialSettings on a re-render: nothing,
\* one of its own records, or the record it was last pushed.
OwnerValues ==
    {None} \cup { Some(r) : r \in ExternalRecords }
           \cup (IF lastPush = None THEN {} ELSE { lastPush })

\* The owner re-renders the panel with props of its choice; the panel renders
\* and runs the effects whose dependencies changed.  The echoing owner
\* re-renders it only in answer to a push that changed the object it holds,
\* with that object and the same callback; its renders are reactions, not
\* events, and are not counted against the bound.
OwnerRender(newInit, sameObject, cbChanged) ==
    /\ mounted
    /\ echo.on \/ Events < MaxEvents
    /\ newInit \in OwnerValues
    /\ sameObject => newInit = initialSettings
    /\ (newInit = None /\ initialSettings = None) => sameObject
    /\ echo.on => (/\ echo.oid # echo.iid
                   /\ newInit = lastPush
                   /\ ~sameObject
                   /\ ~cbChanged)
    /\ nOwnerRenders' = IF echo.on THEN nOwnerRenders ELSE nOwnerRenders + 1
    /\ initialSettings' = newInit
    /\ Render(settings, newInit, ~sameObject, cbChanged)
    /\ echo' = IF echo.on
               THEN EchoAfterRender(echo, echo.sid, echo.oid, settings, newInit,
                                    TRUE, FALSE)
               ELSE echo
    /\ lastStep' = Step("owner", settings, "", 0, << >>, ~sameObject, cbChanged,
                        RenderPushes(settings, newInit, ~sameObject, cbChanged))
    /\ UNCHANGED << mounted, autoApply, loading, error, availableModels, fetchPc,
                    listRequests, loadOutcome, rafQueue, editPushes,
                    staleSetterCalls, nEdits, nCommits >>

\* The owner removes the panel from the tree.
Unmount ==
    /\ mounted
    /\ mounted' = FALSE
    /\ lastStep' = Step("unmount", settings, "", 0, << >>, FALSE, FALSE, 0)
    /\ UNCHANGED << autoApply, initialSettings, settings, loading, error,
                    availableModels, fetchPc, listRequests, loadsStarted,
                    loadOutcome, rafQueue, lastPush, editPushes, staleSetterCalls,
                    nEdits, nOwnerRenders, nCommits, echo >>

Next ==
    \/ \E connected \in BOOLEAN, c \in StartCommands : ProbeResolves(connected, c)
    \/ \E c \in StartCommands : ListFails(c)
    \/ \E data \in ListBodies : ListResolves(data)
    \/ \E field \in Fields : \E value \in EditValues(field) :
         HandleSettingChange(field, value)
    \/ RunFrame
    \/ Commit
    \/ \E newInit \in OwnerValues, sameObject \in BOOLEAN, cbChanged \in BOOLEAN :
         OwnerRender(newInit, sameObject, cbChanged)
    \/ Unmount

Spec == Init /\ [][Next]_vars

\* The panel under an echoing owner, in auto-apply mode and mounted throughout.
\* The browser runs a requested animation frame, React renders the panel
\* after its owner's state changed, and the probe and the list request settle;
\* each fairness condition is subscripted by the variable its step changes.
LoadStep ==
    \/ \E connected \in BOOLEAN, c \in StartCommands : ProbeResolves(connected, c)
    \/ \E c \in StartCommands : ListFails(c)
    \/ \E data \in ListBodies : ListResolves(data)

EchoRender == \E newInit \in OwnerValues : OwnerRender(newInit, FALSE, FALSE)

EchoNext ==
    \/ LoadStep
    \/ \E field \in Fields : \E value \in EditValues(field) :
         HandleSettingChange(field, value)
    \/ RunFrame
    \/ EchoRender

EchoSpec ==
    /\ EchoInit
    /\ [][EchoNext]_vars
    /\ WF_<<fetchPc>>(LoadStep)
    /\ WF_<<rafQueue>>(RunFrame)
    /\ WF_<<echo>>(EchoRender)

\* ------------------------------------------------------------- properties
\* A message holds a part.
Contains(message, part) == \E i \in DOMAIN message : message[i] = part

\* The last step applied a fetched list to the mounted panel.
ListApplied == lastStep.op = "list" /\ mounted

\* The working record at the moment the last step called onSettingsSave: the
\* auto-apply effect of an owner render runs before the initialSettings effect
\* replaces the record; every other step pushes after its own update.
WorkingAtPush == IF lastStep.op = "owner" THEN lastStep.before ELSE settings

\* C1: when the fetched list is applied while the working record's model is
\* non-empty, the model is the same after the application as before, whatever
\* the list holds.
C1_BootstrapKeepsChosenModel ==
    (ListApplied /\ ~Falsy(lastStep.before.model))
        => settings.model = lastStep.before.model

C1_Witness ==
    /\ ListApplied
    /\ lastStep.before.model = "llama3"
    /\ lastStep.models = << "a", "b" >>
    /\ settings.model = "llama3"

\* C2 (as claimed): in auto-apply mode no field edit pushes to the owner in
\* the step that changes the working record, and every edit has exactly one
\* push, made or still pending in the frame queue.
C2_OnePushPerEdit ==
    autoApply =>
        /\ lastStep.op = "edit" => lastStep.pushes = 0
        /\ editPushes + Len(rafQueue) = nEdits

\* C3 (as claimed): once the working record holds a model of the fetched
\* list, a render that keeps the external value and leaves the model field
\* unchanged makes no push from the auto-apply effect, whatever callback the
\* owner passes on that render.
C3_NoRepushOnUnrelatedRender ==
    (/\ lastStep.op = "owner"
     /\ ~lastStep.initChanged
     /\ settings.model = lastStep.before.model
     /\ settings.model \in Range(availableModels))
        => lastStep.pushes = 0

\* C4 (as claimed): once the panel is unmounted no step pushes to the owner
\* and no state setter of the disposed panel is invoked.
C4_NothingAfterUnmount ==
    ~mounted => (staleSetterCalls = 0 /\ lastStep.pushes = 0)

\* C5: when the fetched list is non-empty and the working record's model is
\* empty, the application sets model to the first entry and leaves every other
\* field as it was.
C5_BootstrapSelectsFirst ==
    (ListApplied /\ Falsy(lastStep.before.model) /\ Len(lastStep.models) > 0)
        => settings = [lastStep.before EXCEPT !.model = lastStep.models[1]]

C5_Witness ==
    /\ ListApplied
    /\ lastStep.before.model = ""
    /\ lastStep.models = << "a", "b" >>
    /\ settings.model = "a"
    /\ settings.seed = lastStep.before.seed

\* C6: when the probe answers false the list is never requested and the model
\* list stays empty; on the mounted panel the error is set and holds the start
\* command, loading is cleared, the working record is untouched and the step
\* pushes nothing.
C6_ProbeFailure ==
    /\ (lastStep.op = "probe" /\ lastStep.value = FALSE) =>
          /\ fetchPc = "done"
          /\ listRequests = 0
          /\ settings = lastStep.before
          /\ lastStep.pushes = 0
          /\ mounted =>
                /\ availableModels = << >>
                /\ error # NoError
                /\ \E c \in StartCommands : Contains(error, c)
                /\ ~loading
    /\ (fetchPc = "done" /\ listRequests = 0) => availableModels = << >>

C6_Witness ==
    /\ lastStep.op = "probe"
    /\ lastStep.value = FALSE
    /\ mounted
    /\ autoApply
    /\ Contains(error, "ollama serve")
    /\ settings.model = ""

\* C7: in manual mode an edit followed at once by Apply pushes a record whose
\* edited field has the given value and whose other fields are those of the
\* working record before the edit.
C7_EditThenCommit ==
    (~autoApply /\ lastStep.op = "commit" /\ lastStep.field # "") =>
        /\ lastPush # None
        /\ lastPush[1][lastStep.field] = lastStep.value
        /\ \A f \in Fields \ {lastStep.field} : lastPush[1][f] = lastStep.before[f]

C7_Witness ==
    /\ ~autoApply
    /\ lastStep.op = "commit"
    /\ lastStep.field = "temperature"
    /\ lastStep.value = TemperatureMax
    /\ lastStep.before.temperature # TemperatureMax
    /\ lastPush = Some(settings)

\* C8: in manual mode only the Apply click calls onSettingsSave, once, with
\* the working record of that moment; no edit leaves a deferred push behind.
C8_ManualPushesOnlyOnCommit ==
    ~autoApply =>
        /\ lastStep.pushes > 0 => lastStep.op = "commit"
        /\ lastStep.op = "commit" => (lastStep.pushes = 1 /\ lastPush = Some(settings))
        /\ rafQueue = << >>
        /\ editPushes = 0

C8_Witness ==
    /\ ~autoApply
    /\ lastStep.op = "commit"
    /\ nEdits > 0
    /\ nOwnerRenders > 0
    /\ fetchPc = "done"
    /\ settings # InitialState(initialSettings)

\* C9 (as claimed): every push carries all six fields and its seed is the seed
\* of the working record at the moment of the push; toggling useFixedSeed
\* leaves seed alone.
C9_SeedEqualsWorkingSeed ==
    /\ lastStep.pushes > 0 =>
          /\ lastPush # None
          /\ DOMAIN lastPush[1] = Fields
          /\ lastPush[1].seed = WorkingAtPush.seed
    /\ (lastStep.op = "edit" /\ lastStep.field = "useFixedSeed")
          => settings.seed = lastStep.before.seed

\* C9 (amended): every push carries all six fields; the seed of a bootstrap
\* push or a commit is the working record's seed at that moment, and a
\* deferred push carries the record its edit produced, whose seed is the
\* working record's seed right after that edit; toggling useFixedSeed leaves
\* seed alone.
C9_SeedPreserved ==
    /\ lastStep.pushes > 0 =>
          /\ lastPush # None
          /\ DOMAIN lastPush[1] = Fields
          /\ lastStep.op # "frame" => lastPush[1].seed = WorkingAtPush.seed
    /\ \A i \in DOMAIN rafQueue : DOMAIN rafQueue[i] = Fields
    /\ (lastStep.op = "edit" /\ autoApply) =>
          rafQueue[Len(rafQueue)] =
              [lastStep.before EXCEPT ![lastStep.field] = lastStep.value]
    /\ (lastStep.op = "edit" /\ lastStep.field = "useFixedSeed")
          => settings.seed = lastStep.before.seed

C9_Witness ==
    /\ lastStep.op = "frame"
    /\ lastPush # None
    /\ ~lastPush[1].useFixedSeed
    /\ lastPush[1].seed = 7
    /\ settings.seed = 7

\* C10: an owner render whose initialSettings is a new, supplied record
\* replaces the working record by that record; a render with the same
\* initialSettings leaves the working record alone, be it an owner render or
\* the render after an edit, which keeps the edit.
C10_ExternalChangeOverwrites ==
    /\ lastStep.op = "owner" =>
          /\ (lastStep.initChanged /\ initialSettings # None)
                => settings = initialSettings[1]
          /\ ~lastStep.initChanged => settings = lastStep.before
    /\ lastStep.op = "edit" =>
          settings = [lastStep.before EXCEPT ![lastStep.field] = lastStep.value]

C10_Witness ==
    /\ lastStep.op = "owner"
    /\ lastStep.initChanged
    /\ initialSettings # None
    /\ nEdits > 0
    /\ lastStep.before # initialSettings[1]
    /\ settings = initialSettings[1]

\* C11: the load is started once per mount whatever renders follow, and the
\* list is requested at most once; the panel shows Loading until fetchModels
\* ends, and from the moment its result is applied it shows Ready with no
\* error (the list arrived) or Error with the error set (the probe or the
\* fetch failed), in every later state.
C11_LoadOnceAndTerminal ==
    /\ loadsStarted = 1
    /\ listRequests <= 1
    /\ loadOutcome = "pending" <=> fetchPc # "done"
    /\ loadOutcome = "ready" => listRequests = 1
    /\ fetchPc # "done" => Status(loading, error) = "Loading"
    /\ (fetchPc = "done" /\ staleSetterCalls = 0) =>
          /\ loadOutcome = "ready" => (Status(loading, error) = "Ready" /\ error = NoError)
          /\ loadOutcome = "error" => (Status(loading, error) = "Error" /\ error # NoError)

C11_Witness ==
    /\ mounted
    /\ loadOutcome = "error"
    /\ listRequests = 1
    /\ Status(loading, error) = "Error"
    /\ nEdits > 0
    /\ lastStep.op = "owner"
    /\ lastStep.initChanged
    /\ lastStep.cbChanged
    /\ settings # lastStep.before

\* C12: when the probe succeeded and the list body has no models key, the
\* load ends as a success with an empty list: no models, no error, status
\* Ready, the working record as it was and nothing pushed.
C12_MissingKeyIsEmptyList ==
    (ListApplied /\ lastStep.value = FALSE) =>
        /\ loadOutcome = "ready"
        /\ availableModels = << >>
        /\ error = NoError
        /\ Status(loading, error) = "Ready"
        /\ settings = lastStep.before
        /\ lastStep.pushes = 0

C12_Witness ==
    /\ ListApplied
    /\ lastStep.value = FALSE
    /\ listRequests = 1
    /\ settings.model = ""
    /\ autoApply
    /\ Status(loading, error) = "Ready"

\* Under the echoing owner: no deferred push is pending and the owner's
\* record has been passed back to the panel.
Quiescent == rafQueue = << >> /\ echo.oid = echo.iid

\* A record with its model field blanked, to compare the other five fields.
NonModel(r) == [r EXCEPT !.model = ""]

\* C13 (as claimed, for the fields other than the model, which the first-load
\* bootstrap may still fill in after the last edit): under the echoing owner,
\* once every deferred push has run and the owner's record has been passed
\* back, the working record and the owner's record are the same record and
\* carry the field values of the record the last edit produced.
C13_QuiescentAtLastEdit ==
    (Quiescent /\ echo.lastEdit # None) =>
        /\ lastPush = Some(settings)
        /\ initialSettings = Some(settings)
        /\ NonModel(settings) = NonModel(echo.lastEdit[1])

\* The part of C13 that does hold: the pushes and echoes die out, every run
\* under the echoing owner is eventually quiescent for good.
C13_NoEndlessFeedback == <>[]Quiescent

====
